---- MODULE Spec2Model ----
(***************************************************************************)
(* Model of the detection-result post-processing of Agro.ai:               *)
(*   backend/yolo_inference.py   YOLODetector (catalog severity policy)    *)
(*   CNN_YOLO_MODEL/inference.py PlantDiseaseDetector (area severity)      *)
(*                                                                         *)
(* Encoding of Python values:                                              *)
(*   - a confidence is a float in [0,1]; it is held in hundredths, so      *)
(*     0.81 is 81 and the policy constant 0.95 is 95;                      *)
(*   - Python's None is the value None below, a string no Python string of *)
(*     the program equals (the catalog's severity 'None' is the string     *)
(*     "None");                                                            *)
(*   - a dict is a TLA+ record/function: 'key' in d  is  "key" \in DOMAIN d*)
(*   - severity_percentage is the exact rational num/den (den > 0).        *)
(* The external detector (ultralytics YOLO) and cv2.imread are the         *)
(* environment: their outcomes are the inputs each action enumerates.      *)
(***************************************************************************)
EXTENDS Integers, Sequences, FiniteSets, TLC

VARIABLES
    disease_info,           \* YOLODetector.disease_info (the catalog)
    confidence_threshold,   \* YOLODetector.confidence_threshold, hundredths
    class_names,            \* PlantDiseaseDetector.class_names
    op,                     \* the operation that ran last
    input,                  \* what the environment delivered to that call
    result,                 \* the value that call returned
    model_calls,            \* invocations of self.model(...) within that call
    uploads,                \* the files present in app.config['UPLOAD_FOLDER']
    detection_docs,         \* the stored Detection documents, oldest first
    users,                  \* the stored User documents; a user's id is its index
    handlers                \* the request each handler thread serves, and how far it is

vars == <<disease_info, confidence_threshold, class_names,
          op, input, result, model_calls, uploads, detection_docs,
          users, handlers>>

(***************************************************************************)
(* Bounds of the model                                                     *)
(***************************************************************************)
\* longest list of boxes the detector delivers for one image
MaxBoxes == 2
\* class ids delivered by the detector range over -ClassIdSpan .. ClassIdSpan-1
ClassIdSpan == 11
\* longest list of image paths given to batch_detect
MaxBatch == 2
\* Detection documents stored before the /api/detect requests end
MaxStored == 2
\* most users the collection holds
MaxUsers == 3

(***************************************************************************)
(* Program constants                                                       *)
(***************************************************************************)
\* confidence reported when nothing is detected (0.95)
HealthyConfidence == 95
\* confidence of an error record (0.0)
ErrorConfidence == 0
\* self.confidence_threshold = 0.5
DefaultConfidenceThreshold == 50
\* severity_percentage < 10 -> "Low"
LowLimit == 10
\* severity_percentage < 25 -> "Medium"
MediumLimit == 25

None == "<None>"

(***************************************************************************)
(* Inputs                                                                  *)
(***************************************************************************)
ClassIds == (0 - ClassIdSpan) .. (ClassIdSpan - 1)

\* confidences of delivered boxes: the detector filters at the threshold
Confidences == {50, 81, 95}

ImagePaths == {"leaf.jpg"}

\* texts of exceptions raised by the model call
ExceptionTexts == {"CUDA out of memory"}

RECURSIVE SeqsUpTo(_, _)
SeqsUpTo(S, n) ==
    IF n = 0 THEN {<<>>}
    ELSE LET shorter == SeqsUpTo(S, n - 1)
         IN  shorter \cup {Append(s, x) : s \in {t \in shorter : Len(t) = n - 1}, x \in S}

\* one box of results[0].boxes as YOLODetector reads it: conf[i], cls[i]
Boxes == [conf : Confidences, cls : ClassIds]

BoxLists == SeqsUpTo(Boxes, MaxBoxes)

\* the list the model call returns: empty, or one Results object per image
ResultLists == {<<>>} \cup {<<[boxes |-> b]>> : b \in BoxLists}

(***************************************************************************)
(* YOLODetector                                                            *)
(***************************************************************************)
CatalogAtConstruction ==
    [healthy |->
        [treatment |-> "No treatment needed. Continue regular plant care.",
         severity |-> "None"],
     early_blight |->
        [treatment |-> "Apply fungicide containing chlorothalonil or copper. Remove affected leaves.",
         severity |-> "Medium"],
     late_blight |->
        [treatment |-> "Apply fungicide immediately. Remove and destroy affected plants.",
         severity |-> "High"],
     leaf_mold |->
        [treatment |-> "Improve air circulation. Apply fungicide if severe.",
         severity |-> "Low"],
     septoria_leaf_spot |->
        [treatment |-> "Remove affected leaves. Apply fungicide preventively.",
         severity |-> "Medium"],
     bacterial_spot |->
        [treatment |-> "Apply copper-based bactericide. Avoid overhead watering.",
         severity |-> "Medium"],
     target_spot |->
        [treatment |-> "Apply fungicide and improve plant spacing for air circulation.",
         severity |-> "Medium"],
     mosaic_virus |->
        [treatment |-> "No cure available. Remove infected plants to prevent spread.",
         severity |-> "High"],
     yellow_leaf_curl_virus |->
        [treatment |-> "Control whitefly vectors. Remove infected plants.",
         severity |-> "High"]]

\* the class order of the other detector's class_names list
class_mapping_other_order ==
    (0 :> "healthy") @@ (1 :> "bacterial_spot") @@ (2 :> "early_blight")
    @@ (3 :> "late_blight") @@ (4 :> "leaf_mold") @@ (5 :> "septoria_leaf_spot")
    @@ (6 :> "spider_mites") @@ (7 :> "target_spot") @@ (8 :> "mosaic_virus")

\* the local class_mapping of _map_class_to_disease
class_mapping ==
    (0 :> "healthy") @@ (1 :> "early_blight") @@ (2 :> "late_blight")
    @@ (3 :> "leaf_mold") @@ (4 :> "septoria_leaf_spot")
    @@ (5 :> "bacterial_spot") @@ (6 :> "target_spot")
    @@ (7 :> "mosaic_virus") @@ (8 :> "yellow_leaf_curl_virus")

\* dict.get(key, default)
get(d, key, default) == IF key \in DOMAIN d THEN d[key] ELSE default

\* a mapping that sends the ids outside the table to the first entry
map_class_to_disease_clamped(class_id) ==
    IF class_id \in DOMAIN class_mapping THEN class_mapping[class_id]
    ELSE class_mapping[0]

\* class_mapping.get(class_id, 'unknown_disease')
map_class_to_disease(class_id) == get(class_mapping, class_id, "unknown_disease")

\* str.lower: every name the class table yields is made of lowercase letters
\* and underscores, which lower() leaves as they are
lower(s) == s

\* an argmax that keeps the last occurrence of the maximum
argmax_last(a) ==
    CHOOSE i \in 1 .. Len(a) :
        /\ \A j \in 1 .. Len(a) : a[j] <= a[i]
        /\ \A j \in (i + 1) .. Len(a) : a[j] < a[i]

\* np.argmax: the index of the first occurrence of the maximum
argmax(a) ==
    CHOOSE i \in 1 .. Len(a) :
        /\ \A j \in 1 .. Len(a) : a[j] <= a[i]
        /\ \A j \in 1 .. (i - 1) : a[j] < a[i]

create_error_result_bare(error_message) ==
    [error |-> error_message,
     detections |-> <<>>,
     total_detections |-> 0,
     diseased_detections |-> 0,
     overall_health |-> "Error"]

create_error_result(error_message) ==
    [disease_detected |-> FALSE,
     confidence |-> ErrorConfidence,
     disease_type |-> None,
     severity_level |-> None,
     treatment_recommendation |-> "Detection failed: " \o error_message,
     error |-> error_message]

\* a test that takes only the names of the class table's diseases as diseased
is_diseased_known_only(disease_name) ==
    lower(disease_name) \notin {"healthy", "unknown_disease"}

\* line 120
is_diseased_of(disease_name) == lower(disease_name) # "healthy"

\* line 123: self.disease_info.get(disease_name.lower(), {})
catalog_entry(catalog, disease_name) == get(catalog, lower(disease_name), <<>>)

\* line 124
lookup_treatment(catalog, disease_name) ==
    get(catalog_entry(catalog, disease_name), "treatment",
        "Consult agricultural expert for treatment advice.")

\* a lookup whose default is the catalog's own 'None' tier
lookup_severity_default_none(catalog, disease_name) ==
    get(catalog_entry(catalog, disease_name), "severity", "None")

\* line 125
lookup_severity(catalog, disease_name) ==
    get(catalog_entry(catalog, disease_name), "severity", "Unknown")

\* a record that reports the looked-up severity whether diseased or not
detection_record_unmasked(catalog, max_confidence, detected_class) ==
    LET disease_name == map_class_to_disease(detected_class)
        is_diseased == is_diseased_of(disease_name)
    IN  [disease_detected |-> is_diseased,
         confidence |-> max_confidence,
         disease_type |-> IF is_diseased THEN disease_name ELSE None,
         severity_level |-> lookup_severity(catalog, disease_name),
         treatment_recommendation |->
             IF is_diseased THEN lookup_treatment(catalog, disease_name)
             ELSE "Plant appears healthy. Continue regular care."]

\* a record that reports the catalog's treatment whether diseased or not
detection_record_catalog_treatment(catalog, max_confidence, detected_class) ==
    LET disease_name == map_class_to_disease(detected_class)
        is_diseased == is_diseased_of(disease_name)
    IN  [disease_detected |-> is_diseased,
         confidence |-> max_confidence,
         disease_type |-> IF is_diseased THEN disease_name ELSE None,
         severity_level |->
             IF is_diseased THEN lookup_severity(catalog, disease_name) ELSE None,
         treatment_recommendation |-> lookup_treatment(catalog, disease_name)]

\* the record for the selected box (lines 116-133)
detection_record(catalog, max_confidence, detected_class) ==
    LET disease_name == map_class_to_disease(detected_class)
        is_diseased == is_diseased_of(disease_name)
        treatment == lookup_treatment(catalog, disease_name)
        severity == lookup_severity(catalog, disease_name)
    IN  [disease_detected |-> is_diseased,
         confidence |-> max_confidence,
         disease_type |-> IF is_diseased THEN disease_name ELSE None,
         severity_level |-> IF is_diseased THEN severity ELSE None,
         treatment_recommendation |->
             IF is_diseased THEN treatment
             ELSE "Plant appears healthy. Continue regular care."]

\* a no-detection record whose confidence is a percentage, not a fraction
no_detection_record_percent ==
    [disease_detected |-> FALSE,
     confidence |-> HealthyConfidence * 100,
     disease_type |-> None,
     severity_level |-> None,
     treatment_recommendation |-> "Plant appears healthy. Continue regular care."]

\* a no-detection record that carries the error path's confidence
no_detection_record_zero ==
    [disease_detected |-> FALSE,
     confidence |-> ErrorConfidence,
     disease_type |-> None,
     severity_level |-> None,
     treatment_recommendation |-> "Plant appears healthy. Continue regular care."]

no_detection_record ==
    [disease_detected |-> FALSE,
     confidence |-> HealthyConfidence,
     disease_type |-> None,
     severity_level |-> None,
     treatment_recommendation |-> "Plant appears healthy. Continue regular care."]

\* the processing of the model's results (lines 105-143)
process_results(catalog, results) ==
    IF Len(results) > 0 /\ Len(results[1].boxes) > 0
    THEN LET boxes == results[1].boxes
             confidences == [i \in 1 .. Len(boxes) |-> boxes[i].conf]
             classes == [i \in 1 .. Len(boxes) |-> boxes[i].cls]
             max_conf_idx == argmax(confidences)
         IN  detection_record(catalog, confidences[max_conf_idx],
                              classes[max_conf_idx])
    ELSE no_detection_record

\* where inside the try block an exception is raised: by the model call
\* (line 102) or while its results are processed (lines 105-133)
RaiseSites == {"inference", "postprocess"}

\* what one YOLODetector.detect call meets: whether cv2.imread can read the
\* file, and what the model call does (returns a list, or an exception is
\* raised at one of the RaiseSites)
DetectInputs ==
    [image_path : ImagePaths, readable : {FALSE}, raises : {FALSE}, results : {<<>>}]
    \cup [image_path : ImagePaths, readable : {TRUE}, raises : {TRUE},
          at : RaiseSites, text : ExceptionTexts]
    \cup [image_path : ImagePaths, readable : {TRUE}, raises : {FALSE},
          results : ResultLists]

\* a detect whose try block ends before the results are processed: an
\* exception raised there leaves the call ([raised |-> text] stands for it)
detect_uncaught(catalog, in) ==
    IF ~in.readable THEN create_error_result("Failed to preprocess image")
    ELSE IF in.raises
         THEN IF in.at = "postprocess" THEN [raised |-> in.text]
              ELSE create_error_result(in.text)
    ELSE process_results(catalog, in.results)

\* a detect that answers a caught exception with the no-detection record
detect_swallowing(catalog, in) ==
    IF ~in.readable THEN create_error_result("Failed to preprocess image")
    ELSE IF in.raises THEN no_detection_record
    ELSE process_results(catalog, in.results)

\* a detect that does not test the preprocessing result
detect_unchecked(catalog, in) ==
    IF in.raises THEN create_error_result(in.text)
    ELSE process_results(catalog, in.results)

\* YOLODetector.detect, as a function of what the call meets
detect(catalog, in) ==
    IF ~in.readable THEN create_error_result("Failed to preprocess image")
    ELSE IF in.raises THEN create_error_result(in.text)
    ELSE process_results(catalog, in.results)

\* a call count of a detect that calls the model again after a failed call
detect_model_calls_retry(in) ==
    IF ~in.readable THEN 0
    ELSE IF in.raises /\ in.at = "inference" THEN 2
    ELSE 1

\* the number of self.model(...) invocations of that call
detect_model_calls(in) == IF in.readable THEN 1 ELSE 0

\* a detect call that enters the looked-up name into the catalog when it is
\* missing (setdefault in place of get)
Detect_caching ==
    /\ op = "idle"
    /\ \E in \in DetectInputs :
           /\ input' = in
           /\ result' = detect(disease_info, in)
           /\ model_calls' = detect_model_calls(in)
           /\ disease_info' =
                  IF in.readable /\ ~in.raises /\ Len(in.results) > 0
                     /\ Len(in.results[1].boxes) > 0
                     /\ result'.disease_type \notin DOMAIN disease_info \cup {None}
                  THEN (result'.disease_type :> <<>>) @@ disease_info
                  ELSE disease_info
    /\ op' = "detect"
    /\ UNCHANGED <<confidence_threshold, class_names, uploads, detection_docs, users, handlers>>

\* one call of YOLODetector.detect
Detect ==
    /\ op = "idle"
    /\ \E in \in DetectInputs :
           /\ input' = in
           /\ result' = detect(disease_info, in)
           /\ model_calls' = detect_model_calls(in)
    /\ op' = "detect"
    /\ UNCHANGED <<disease_info, confidence_threshold, class_names, uploads, detection_docs, users, handlers>>

\* the paths of a batch
BatchImagePaths == {"a.jpg", "b.jpg"}

\* the boxes of a batch image as the detector delivers them, coordinates
\* included (detect reads conf and cls only)
BatchBoxes == [conf : {81}, cls : {0, 2, 9}, xyxy : {<<0, 0, 1, 10>>, <<0, 0, 5, 5>>}]

\* what the detect call of one batch image meets
BatchItems ==
    [image_path : BatchImagePaths, readable : {FALSE}, raises : {FALSE},
     results : {<<>>}]
    \cup [image_path : BatchImagePaths, readable : {TRUE}, raises : {TRUE},
          at : {"inference"}, text : ExceptionTexts]
    \cup [image_path : BatchImagePaths, readable : {TRUE}, raises : {FALSE},
          results : {<<[boxes |-> <<>>]>>} \cup {<<[boxes |-> <<b>>]>> : b \in BatchBoxes}]

BatchInputs == SeqsUpTo(BatchItems, MaxBatch)

\* result['image_path'] = image_path (line 182)
with_image_path(record, image_path) == ("image_path" :> image_path) @@ record

\* the results of the images up to the first one of items[from..] that fails
RECURSIVE batch_until_error(_, _, _)
batch_until_error(catalog, items, from) ==
    IF from > Len(items) THEN <<>>
    ELSE LET r == with_image_path(detect(catalog, items[from]), items[from].image_path)
         IN  IF "error" \in DOMAIN r THEN <<r>>
             ELSE <<r>> \o batch_until_error(catalog, items, from + 1)

\* a batch_detect that leaves its loop at the first failed image
batch_detect_stopping(catalog, items) == batch_until_error(catalog, items, 1)

\* YOLODetector.batch_detect: the loop of lines 179-185
batch_detect(catalog, items) ==
    [i \in 1 .. Len(items) |->
        with_image_path(detect(catalog, items[i]), items[i].image_path)]

RECURSIVE batch_model_calls(_, _)
\* the self.model(...) invocations of the detect calls of items[from..]
batch_model_calls(items, from) ==
    IF from > Len(items) THEN 0
    ELSE detect_model_calls(items[from]) + batch_model_calls(items, from + 1)

\* one call of YOLODetector.batch_detect
BatchDetect ==
    /\ op = "idle"
    /\ \E items \in BatchInputs :
           /\ input' = items
           /\ result' = batch_detect(disease_info, items)
           /\ model_calls' = batch_model_calls(items, 1)
    /\ op' = "batch_detect"
    /\ UNCHANGED <<disease_info, confidence_threshold, class_names, uploads, detection_docs, users, handlers>>

(***************************************************************************)
(* PlantDiseaseDetector                                                    *)
(***************************************************************************)
ClassNamesAtConstruction ==
    <<"healthy", "bacterial_spot", "early_blight", "late_blight",
      "leaf_mold", "septoria_leaf_spot", "spider_mites", "target_spot",
      "mosaic_virus", "yellow_leaf_curl_virus">>

\* boxes.xyxy[i] = <<x1, y1, x2, y2>> in pixels
BoxCoordinates ==
    {<<x1, 0, x2, y2>> : x1 \in {0, 1}, x2 \in {1, 5}, y2 \in {5, 10}}

\* class ids below, inside and above the index range of class_names
AreaClassIds == {0 - ClassIdSpan, -1, 0, 3, ClassIdSpan - 1}

AreaBoxes == [xyxy : BoxCoordinates, conf : {81}, cls : AreaClassIds]

AreaBoxLists == SeqsUpTo(AreaBoxes, MaxBoxes)

\* image_rgb.shape[0], image_rgb.shape[1]: rows, columns
ImageShapes == {<<10, 10>>, <<5, 40>>}

DetectDiseaseInputs ==
    [image_path : ImagePaths, readable : {FALSE}, raises : {FALSE}, results : {<<>>}]
    \cup [image_path : ImagePaths, readable : {TRUE}, raises : {TRUE},
          text : ExceptionTexts]
    \cup [image_path : ImagePaths, readable : {TRUE}, raises : {FALSE},
          shape : ImageShapes,
          results : {<<>>} \cup {<<[boxes |-> b]>> : b \in AreaBoxLists}]

\* a Python list index: i in -len..len-1 is valid, negative i counts from the end
index_ok(list, i) == i >= 0 - Len(list) /\ i < Len(list)
list_item(list, i) == IF i >= 0 THEN list[i + 1] ELSE list[Len(list) + i + 1]

\* the test of line 96
in_class_names(names, class_id) == class_id < Len(names)

\* lines 96-99; only asked when the index does not raise
class_name_of(names, class_id) ==
    IF in_class_names(names, class_id) THEN list_item(names, class_id)
    ELSE "class_" \o ToString(class_id)

\* line 96-97 raises IndexError: class_id < len but below -len
index_raises(names, class_id) ==
    in_class_names(names, class_id) /\ ~index_ok(names, class_id)

bbox_area(box) == (box[3] - box[1]) * (box[4] - box[2])

image_area(shape) == shape[1] * shape[2]

\* (bbox_area / image_area) * 100 as the rational num/den
severity_percentage(box, shape) ==
    [num |-> bbox_area(box) * 100, den |-> image_area(shape)]

\* p < limit for the rational p (den > 0)
pct_less(p, limit) == p.num < limit * p.den

\* tiers whose upper limits are inclusive
area_severity_level_inclusive(p) ==
    IF p.num <= LowLimit * p.den THEN "Low"
    ELSE IF p.num <= MediumLimit * p.den THEN "Medium"
    ELSE "High"

\* lines 107-112
area_severity_level(p) ==
    IF pct_less(p, LowLimit) THEN "Low"
    ELSE IF pct_less(p, MediumLimit) THEN "Medium"
    ELSE "High"

\* a detection that gives a healthy box the catalog's 'None' tier
area_detection_healthy_none(names, b, shape) ==
    LET class_name == class_name_of(names, b.cls)
        p == severity_percentage(b.xyxy, shape)
    IN  [class_name |-> class_name,
         confidence |-> b.conf,
         bbox |-> b.xyxy,
         severity_percentage |-> p,
         severity_level |->
             IF class_name = "healthy" THEN "None" ELSE area_severity_level(p),
         is_diseased |-> class_name # "healthy"]

\* lines 114-121
area_detection(names, b, shape) ==
    LET class_name == class_name_of(names, b.cls)
        p == severity_percentage(b.xyxy, shape)
    IN  [class_name |-> class_name,
         confidence |-> b.conf,
         bbox |-> b.xyxy,
         severity_percentage |-> p,
         severity_level |-> area_severity_level(p),
         is_diseased |-> class_name # "healthy"]

pd_create_error_result(error_message) ==
    [error |-> error_message,
     detections |-> <<>>,
     total_detections |-> 0,
     diseased_detections |-> 0,
     overall_health |-> "Error"]

\* lines 83-123: the loop over the boxes
area_detections(names, results, shape) ==
    IF Len(results) > 0 /\ Len(results[1].boxes) > 0
    THEN [i \in 1 .. Len(results[1].boxes) |->
              area_detection(names, results[1].boxes[i], shape)]
    ELSE <<>>

\* a final result whose health is 'Healthy' unless every detection is diseased
final_result_unless_all(image_path, detections) ==
    [image_path |-> image_path,
     detections |-> detections,
     total_detections |-> Len(detections),
     diseased_detections |->
         Cardinality({i \in 1 .. Len(detections) : detections[i].is_diseased}),
     overall_health |->
         IF ~(\A i \in 1 .. Len(detections) : detections[i].is_diseased)
         THEN "Healthy" ELSE "Diseased"]

\* lines 157-164
final_result(image_path, detections) ==
    [image_path |-> image_path,
     detections |-> detections,
     total_detections |-> Len(detections),
     diseased_detections |->
         Cardinality({i \in 1 .. Len(detections) : detections[i].is_diseased}),
     overall_health |->
         IF ~(\E i \in 1 .. Len(detections) : detections[i].is_diseased)
         THEN "Healthy" ELSE "Diseased"]

\* PlantDiseaseDetector.detect_disease, as a function of what the call meets
detect_disease(names, in) ==
    IF ~in.readable THEN pd_create_error_result("Failed to load image")
    ELSE IF in.raises THEN pd_create_error_result(in.text)
    ELSE IF /\ Len(in.results) > 0
            /\ \E i \in 1 .. Len(in.results[1].boxes) :
                   index_raises(names, in.results[1].boxes[i].cls)
    THEN pd_create_error_result("list index out of range")
    ELSE final_result(in.image_path, area_detections(names, in.results, in.shape))

\* the number of self.model(...) invocations of that call (lines 75-80)
detect_disease_model_calls(in) == IF in.readable THEN 1 ELSE 0

\* one call of PlantDiseaseDetector.detect_disease
DetectDisease ==
    /\ op = "idle"
    /\ \E in \in DetectDiseaseInputs :
           /\ input' = in
           /\ result' = detect_disease(class_names, in)
           /\ model_calls' = detect_disease_model_calls(in)
    /\ op' = "detect_disease"
    /\ UNCHANGED <<disease_info, confidence_threshold, class_names, uploads, detection_docs, users, handlers>>

(***************************************************************************)
(* The class tables of the training and utility scripts                    *)
(***************************************************************************)
\* PlantVillageDataset.class_mapping: class name -> class id
dataset_class_mapping ==
    ("healthy" :> 0) @@ ("bacterial_spot" :> 1) @@ ("early_blight" :> 2)
    @@ ("late_blight" :> 3) @@ ("leaf_mold" :> 4) @@ ("septoria_leaf_spot" :> 5)
    @@ ("spider_mites" :> 6) @@ ("target_spot" :> 7) @@ ("mosaic_virus" :> 8)
    @@ ("yellow_leaf_curl_virus" :> 9)

\* the class id written into the label files of the images of class_name
\* (create_sample_annotations is called with class_mapping's items)
label_class_id(class_name) == dataset_class_mapping[class_name]

\* the name a training label's class id stands for
label_class_name(class_id) ==
    CHOOSE n \in DOMAIN dataset_class_mapping : label_class_id(n) = class_id

\* ModelUtils.get_class_names when the model has no 'names' attribute
default_class_names ==
    (0 :> "healthy") @@ (1 :> "bacterial_spot") @@ (2 :> "early_blight")
    @@ (3 :> "late_blight") @@ (4 :> "leaf_mold") @@ (5 :> "septoria_leaf_spot")
    @@ (6 :> "spider_mites") @@ (7 :> "target_spot") @@ (8 :> "mosaic_virus")
    @@ (9 :> "yellow_leaf_curl_virus")

(***************************************************************************)
(* The /api/detect route (backend/app.py)                                  *)
(*                                                                         *)
(* The database (User.objects, Detection.save), the request parsing, the   *)
(* file system and the Cloudinary upload are the environment. Each of      *)
(* their calls either returns or raises; models.py as it stands declares   *)
(* SQLAlchemy models without an 'objects' attribute, which is the raising  *)
(* outcome of the user lookup.                                             *)
(***************************************************************************)
\* a part of the request that the handler does not get to
NA == "-"

\* f"{uuid.uuid4()}.jpg" under the upload folder
UploadPath == "uploads/u.jpg"

\* what the detect call of the route meets, one input for each path of detect
ApiDetectInputs ==
    [image_path : {UploadPath}, readable : {FALSE}, raises : {FALSE},
     results : {<<>>}]
    \cup [image_path : {UploadPath}, readable : {TRUE}, raises : {TRUE},
          at : RaiseSites, text : ExceptionTexts]
    \cup [image_path : {UploadPath}, readable : {TRUE}, raises : {FALSE},
          results : {<<[boxes |-> <<>>]>>}
                    \cup {<<[boxes |-> <<[conf |-> 81, cls |-> c]>>]>> : c \in {0, 2, 9}}]

Requests(U, J, F, D, S, I, C, B) ==
    [user : U, json : J, files : F, decode : D, save : S, din : I,
     upload : C, db_save : B]

\* the requests whose file was saved and handed to detect: a JSON body with
\* an image, or an uploaded file with a name
SavedRequests(I, C, B) ==
    Requests({"found"}, {"with_image"}, {NA}, {"ok"}, {"ok"}, I, C, B)
    \cup Requests({"found"}, {"without_image"}, {"named"}, {NA}, {"ok"}, I, C, B)

\* what one request meets, the parts it does not get to left NA:
\*   user     User.objects(id=...).first(): "found", "missing", "raises"
\*   json     request.json: "with_image", "without_image", "raises"
\*   files    request.files: "named", "empty_name", "none"
\*   decode   base64.b64decode and Image.open: "ok", "raises"
\*   save     image.save / file.save: "ok", or raises with or without a
\*            file left behind
\*   din      what yolo_detector.detect meets
\*   upload   cloudinary.uploader.upload: "url", "no_url", "raises"
\*   db_save  detection.save(): "ok", "raises"
ApiRequests ==
    Requests({"raises", "missing"}, {NA}, {NA}, {NA}, {NA}, {NA}, {NA}, {NA})
    \cup Requests({"found"}, {"raises"}, {NA}, {NA}, {NA}, {NA}, {NA}, {NA})
    \cup Requests({"found"}, {"without_image"}, {"none", "empty_name"},
                  {NA}, {NA}, {NA}, {NA}, {NA})
    \cup Requests({"found"}, {"with_image"}, {NA}, {"raises"},
                  {NA}, {NA}, {NA}, {NA})
    \cup Requests({"found"}, {"with_image"}, {NA}, {"ok"},
                  {"raises_no_file", "raises_left_file"}, {NA}, {NA}, {NA})
    \cup Requests({"found"}, {"without_image"}, {"named"}, {NA},
                  {"raises_no_file", "raises_left_file"}, {NA}, {NA}, {NA})
    \cup SavedRequests(ApiDetectInputs, {"raises", "no_url"}, {NA})
    \cup SavedRequests(ApiDetectInputs, {"url"}, {"ok", "raises"})

\* what a handled request leaves: the response, the upload folder, the
\* documents it stored, and what detect returned to it (None: not called)
Outcome(status, body, files, stored, detection_result) ==
    [status |-> status, body |-> body, files |-> files, stored |-> stored,
     detection_result |-> detection_result]

\* an exception handler that leaves the local file where it is
cleanup_none(filepath, files) == files

\* lines 343-344: if filepath and os.path.exists(filepath): os.remove(filepath)
cleanup(filepath, files) ==
    IF filepath # None /\ filepath \in files THEN files \ {filepath} ELSE files

\* a handler that returns the error body without a status code (Flask: 200)
handle_exception_no_status(text, filepath, files, detection_result) ==
    Outcome(200, [error |-> text], cleanup(filepath, files), <<>>,
            detection_result)

\* lines 341-345
handle_exception(text, filepath, files, detection_result) ==
    Outcome(500, [error |-> text], cleanup(filepath, files), <<>>,
            detection_result)

\* lines 308-339: the upload, the removal of the local file, the document
upload_and_store(rq, files, detection_result, next_id) ==
    IF rq.upload = "raises"
    THEN handle_exception("upload error", UploadPath, files, detection_result)
    ELSE IF rq.upload = "no_url"
    THEN handle_exception("Cloudinary upload failed", UploadPath, files,
                          detection_result)
    ELSE LET removed == files \ {UploadPath}
         IN  IF "disease_detected" \notin DOMAIN detection_result
             THEN handle_exception("'disease_detected'", UploadPath, removed,
                                   detection_result)
             ELSE IF "confidence" \notin DOMAIN detection_result
             THEN handle_exception("'confidence'", UploadPath, removed,
                                   detection_result)
             ELSE IF rq.db_save = "raises"
             THEN handle_exception("save error", UploadPath, removed,
                                   detection_result)
             ELSE LET document ==
                          [user |-> "user",
                           image_url |-> "https://cloud/u.jpg",
                           disease_detected |-> detection_result.disease_detected,
                           confidence_score |-> detection_result.confidence,
                           disease_type |-> get(detection_result, "disease_type", None),
                           severity_level |-> get(detection_result, "severity_level", None),
                           treatment_recommendation |->
                               get(detection_result, "treatment_recommendation", None)]
                      body ==
                          [detection_id |-> next_id,
                           disease_detected |-> detection_result.disease_detected,
                           confidence |-> detection_result.confidence,
                           disease_type |-> get(detection_result, "disease_type", None),
                           severity_level |-> get(detection_result, "severity_level", None),
                           treatment_recommendation |->
                               get(detection_result, "treatment_recommendation", None)]
                  IN  Outcome(200, body, removed, <<document>>, detection_result)

\* lines 280-306: the local file is saved and detect runs on it
save_and_detect(catalog, rq, files, next_id) ==
    IF rq.save = "raises_no_file"
    THEN handle_exception("save failed", UploadPath, files, None)
    ELSE IF rq.save = "raises_left_file"
    THEN handle_exception("save failed", UploadPath, files \cup {UploadPath}, None)
    ELSE upload_and_store(rq, files \cup {UploadPath},
                          detect(catalog, rq.din), next_id)

\* the handler of /api/detect, as a function of what the request meets
api_detect(catalog, rq, files, next_id) ==
    IF rq.user = "raises" THEN handle_exception("lookup error", None, files, None)
    ELSE IF rq.user = "missing"
    THEN Outcome(404, [error |-> "User not found"], files, <<>>, None)
    ELSE IF rq.json = "raises"
    THEN handle_exception("request is not JSON", None, files, None)
    ELSE IF rq.json = "with_image"
    THEN IF rq.decode = "raises"
         THEN handle_exception("cannot identify image file", None, files, None)
         ELSE save_and_detect(catalog, rq, files, next_id)
    ELSE IF rq.files = "named" THEN save_and_detect(catalog, rq, files, next_id)
    ELSE IF rq.files = "empty_name"
    THEN Outcome(400, [error |-> "No file selected"], files, <<>>, None)
    ELSE Outcome(400, [error |-> "No image provided"], files, <<>>, None)

\* one request to /api/detect
ApiDetect ==
    /\ op = "idle"
    /\ Len(detection_docs) < MaxStored
    /\ \E rq \in ApiRequests :
           LET out == api_detect(disease_info, rq, uploads, Len(detection_docs) + 1)
           IN  /\ input' = rq
               /\ result' = [status |-> out.status, body |-> out.body,
                             detection_result |-> out.detection_result]
               /\ uploads' = out.files
               /\ detection_docs' = detection_docs \o out.stored
               /\ model_calls' =
                      IF rq.save = "ok" THEN detect_model_calls(rq.din) ELSE 0
    /\ op' = "api_detect"
    /\ UNCHANGED <<disease_info, confidence_threshold, class_names, users, handlers>>

\* the call returns to its caller; the detector waits for the next call
Return ==
    /\ op # "idle"
    /\ op' = "idle"
    /\ input' = None
    /\ result' = None
    /\ model_calls' = 0
    /\ UNCHANGED <<disease_info, confidence_threshold, class_names, uploads, detection_docs, users, handlers>>

(***************************************************************************)
(* /api/register and PUT /api/profile (backend/app.py)                     *)
(*                                                                         *)
(* The server handles requests concurrently, so a handler is a sequence of *)
(* steps, one per database call, and the steps of different handlers       *)
(* interleave. The users collection follows the declaration of models.py:  *)
(* username and email are unique, a save that would break that raises.     *)
(***************************************************************************)
\* the variables of the detectors and of the /api/detect route
detection_vars == <<disease_info, confidence_threshold, class_names,
                    op, input, result, model_calls, uploads, detection_docs>>

\* the requests the server handles at the same time
Handlers == {1, 2}

Emails == {"a@x.org", "b@x.org"}
Usernames == {"ann", "bob"}
Passwords == {"pw"}

\* the identities the tokens of profile requests carry (user ids)
Identities == 1 .. MaxUsers

\* request.get_json() of /api/register
RegisterData == [username : Usernames, email : Emails, password : Passwords]

ProfileKeys == {"username", "email", "password"}

ProfileValues(key) ==
    CASE key = "username" -> Usernames
      [] key = "email" -> Emails
      [] key = "password" -> Passwords

\* request.get_json() of PUT /api/profile: any of the three keys
ProfileData ==
    UNION {{d \in [K -> Usernames \cup Emails \cup Passwords] :
                \A k \in K : d[k] \in ProfileValues(k)} : K \in SUBSET ProfileKeys}

generate_password_hash(password) == "hash:" \o password

\* what .first() returns for an empty query: None, held as the id no user has
NoUser == 0

\* User.objects(email=...).first(): the id of the first user with that
\* email, None if there is none
first_by_email(rows, email) ==
    IF \E i \in 1 .. Len(rows) : rows[i].email = email
    THEN CHOOSE i \in 1 .. Len(rows) :
             /\ rows[i].email = email
             /\ \A j \in 1 .. (i - 1) : rows[j].email # email
    ELSE NoUser

\* User.objects(id=...).first()
first_by_id(rows, id) == IF id \in 1 .. Len(rows) THEN id ELSE NoUser

\* a collection without unique columns
unique_ok_undeclared(rows, id, user) == TRUE

\* models.py, lines 11-12: username and email are unique; the save of the
\* user with this id is accepted when no other row has either value
unique_ok(rows, id, user) ==
    \A j \in 1 .. Len(rows) :
        j # id => rows[j].email # user.email /\ rows[j].username # user.username

\* lines 92-96: the user register builds
new_user(data) ==
    [username |-> data.username,
     email |-> data.email,
     password_hash |-> generate_password_hash(data.password)]

\* lines 181-190: the fields update_profile assigns to the loaded user
changed_user(user, data) ==
    [username |-> IF "username" \in DOMAIN data THEN data.username ELSE user.username,
     email |-> IF "email" \in DOMAIN data THEN data.email ELSE user.email,
     password_hash |->
         IF "password" \in DOMAIN data THEN generate_password_hash(data.password)
         ELSE user.password_hash]

\* the fields update_profile assigned, written over the stored row
written_user(row, user, data) ==
    [username |-> IF "username" \in DOMAIN data THEN user.username ELSE row.username,
     email |-> IF "email" \in DOMAIN data THEN user.email ELSE row.email,
     password_hash |->
         IF "password" \in DOMAIN data THEN user.password_hash
         ELSE row.password_hash]

Idle == [pc |-> "idle"]

Answered(kind, data, status, body) ==
    [pc |-> "done", kind |-> kind, data |-> data, status |-> status, body |-> body]

user_body(message, id, user) ==
    [message |-> message,
     user |-> [id |-> id, username |-> user.username, email |-> user.email]]

\* register, lines 86-89: the lookup by email and the 400 answer
RegisterCheck(p) ==
    /\ handlers[p] = Idle
    /\ \E data \in RegisterData :
           handlers' = [handlers EXCEPT ![p] =
               IF first_by_email(users, data.email) # NoUser
               THEN Answered("register", data, 400,
                             [error |-> "Email already registered"])
               ELSE [pc |-> "register_checked", kind |-> "register", data |-> data]]
    /\ UNCHANGED <<users, detection_vars>>

\* register, lines 91-108: user.save() and the 201 answer, or the 500 of
\* the exception handler when the save raises
RegisterSave(p) ==
    /\ handlers[p].pc = "register_checked"
    /\ Len(users) < MaxUsers
    /\ LET data == handlers[p].data
           user == new_user(data)
           id == Len(users) + 1
       IN  IF unique_ok(users, id, user)
           THEN /\ users' = Append(users, user)
                /\ handlers' = [handlers EXCEPT ![p] =
                       Answered("register", data, 201,
                                user_body("User registered successfully", id, user))]
           ELSE /\ users' = users
                /\ handlers' = [handlers EXCEPT ![p] =
                       Answered("register", data, 500, [error |-> "duplicate key"])]
    /\ UNCHANGED detection_vars

\* update_profile, lines 175-179: the lookup of the token's user
ProfileLookup(p) ==
    /\ handlers[p] = Idle
    /\ \E identity \in Identities, data \in ProfileData :
           handlers' = [handlers EXCEPT ![p] =
               IF first_by_id(users, identity) = NoUser
               THEN Answered("profile", data, 404, [error |-> "User not found"])
               ELSE [pc |-> "profile_loaded", kind |-> "profile", data |-> data,
                     id |-> identity, user |-> users[identity]]]
    /\ UNCHANGED <<users, detection_vars>>

\* update_profile, lines 181-190: the assignments to the loaded user and
\* the lookup by email
ProfileCheck(p) ==
    /\ handlers[p].pc = "profile_loaded"
    /\ LET h == handlers[p]
           existing == IF "email" \in DOMAIN h.data
                       THEN first_by_email(users, h.data.email) ELSE NoUser
       IN  handlers' = [handlers EXCEPT ![p] =
               IF existing # NoUser /\ existing # h.id
               THEN Answered("profile", h.data, 400,
                             [error |-> "Email already in use"])
               ELSE [h EXCEPT !.pc = "profile_checked",
                              !.user = changed_user(h.user, h.data)]]
    /\ UNCHANGED <<users, detection_vars>>

\* update_profile, lines 192-202: user.save() and the 200 answer, or the
\* 500 of the exception handler when the save raises
ProfileSave(p) ==
    /\ handlers[p].pc = "profile_checked"
    /\ LET h == handlers[p]
           row == written_user(users[h.id], h.user, h.data)
       IN  IF unique_ok(users, h.id, row)
           THEN /\ users' = [users EXCEPT ![h.id] = row]
                /\ handlers' = [handlers EXCEPT ![p] =
                       Answered("profile", h.data, 200,
                                user_body("Profile updated successfully", h.id, h.user))]
           ELSE /\ users' = users
                /\ handlers' = [handlers EXCEPT ![p] =
                       Answered("profile", h.data, 500, [error |-> "duplicate key"])]
    /\ UNCHANGED detection_vars

\* the answer is sent; the handler takes the next request
Respond(p) ==
    /\ handlers[p].pc = "done"
    /\ handlers' = [handlers EXCEPT ![p] = Idle]
    /\ UNCHANGED <<users, detection_vars>>

(***************************************************************************)
(* Specification                                                           *)
(***************************************************************************)
Init ==
    /\ disease_info = CatalogAtConstruction
    /\ confidence_threshold = DefaultConfidenceThreshold
    /\ class_names = ClassNamesAtConstruction
    /\ op = "idle"
    /\ input = None
    /\ result = None
    /\ model_calls = 0
    /\ uploads = {}
    /\ detection_docs = <<>>
    /\ users = <<>>
    /\ handlers = [p \in Handlers |-> Idle]

Next ==
    \/ Detect
    \/ BatchDetect
    \/ DetectDisease
    \/ Return

Spec == Init /\ [][Next]_vars

\* the web application: requests to /api/detect, one at a time
ApiNext ==
    \/ ApiDetect
    \/ Return

ApiSpec == Init /\ [][ApiNext]_vars

\* the web application: requests to /api/register and PUT /api/profile,
\* handled concurrently
UserNext ==
    \E p \in Handlers :
        \/ RegisterCheck(p)
        \/ RegisterSave(p)
        \/ ProfileLookup(p)
        \/ ProfileCheck(p)
        \/ ProfileSave(p)
        \/ Respond(p)

UserSpec == Init /\ [][UserNext]_vars

(***************************************************************************)
(* Properties of YOLODetector.detect                                       *)
(***************************************************************************)
\* the last call was a detect call whose model call returned a list
DetectReturned == op = "detect" /\ input.readable /\ ~input.raises

\* ... and the first result of that list holds at least one box
DetectHasBoxes ==
    DetectReturned /\ Len(input.results) > 0 /\ Len(input.results[1].boxes) > 0

\* box k has the maximal confidence and every earlier box a smaller one
FirstMaximum(boxes, k) ==
    /\ \A j \in 1 .. Len(boxes) : boxes[j].conf <= boxes[k].conf
    /\ \A j \in 1 .. (k - 1) : boxes[j].conf < boxes[k].conf

\* the box the claims call "the selected box"
SelectedBox ==
    LET boxes == input.results[1].boxes
    IN  boxes[CHOOSE k \in 1 .. Len(boxes) : FirstMaximum(boxes, k)]

\* the names of the class table, written out
TableName(id) ==
    CASE id = 0 -> "healthy"
      [] id = 1 -> "early_blight"
      [] id = 2 -> "late_blight"
      [] id = 3 -> "leaf_mold"
      [] id = 4 -> "septoria_leaf_spot"
      [] id = 5 -> "bacterial_spot"
      [] id = 6 -> "target_spot"
      [] id = 7 -> "mosaic_virus"
      [] id = 8 -> "yellow_leaf_curl_virus"
      [] OTHER -> "unknown_disease"

\* C1: for a non-empty list of boxes, detect reports the confidence and the
\* class (through the disease name) of the box of maximal confidence, and of
\* the first such box in input order when several share the maximum.
C1_FirstMaxSelected ==
    DetectHasBoxes =>
        LET boxes == input.results[1].boxes
        IN  \E k \in 1 .. Len(boxes) :
                /\ FirstMaximum(boxes, k)
                /\ result.confidence = boxes[k].conf
                /\ result.disease_detected = (boxes[k].cls # 0)
                /\ result.disease_type =
                       IF boxes[k].cls = 0 THEN None ELSE TableName(boxes[k].cls)

\* two boxes share the maximum and the first one's class is reported
C1_Witness ==
    /\ DetectHasBoxes
    /\ input.results[1].boxes = <<[conf |-> 81, cls |-> 2], [conf |-> 81, cls |-> 3]>>
    /\ result.disease_type = "late_blight"
    /\ result.confidence = 81

\* C2: when the model returns no boxes (an empty list, or a first result
\* with zero boxes) for a readable image, detect returns the healthy record:
\* not diseased, confidence 0.95, no disease type, no severity, and the
\* generic healthy treatment.
C2_NoBoxesHealthy ==
    (DetectReturned /\ ~DetectHasBoxes) =>
        result = [disease_detected |-> FALSE,
                  confidence |-> 95,
                  disease_type |-> None,
                  severity_level |-> None,
                  treatment_recommendation |->
                      "Plant appears healthy. Continue regular care."]

\* a first result with zero boxes was answered with confidence 0.95
C2_Witness ==
    /\ DetectReturned
    /\ input.results = <<[boxes |-> <<>>]>>
    /\ result.confidence = 95
    /\ ~result.disease_detected

\* C3: in every record detect returns, severity_level is None, disease_type
\* is None and disease_detected is false hold together or fail together.
C3_NoneTogether ==
    op = "detect" =>
        /\ (result.severity_level = None) <=> (result.disease_type = None)
        /\ (result.disease_type = None) <=> (result.disease_detected = FALSE)

\* a healthy top box (class 0), whose catalog severity is the string 'None'
C3_Witness ==
    /\ DetectHasBoxes
    /\ SelectedBox.cls = 0
    /\ result.severity_level = None
    /\ result.disease_type = None
    /\ ~result.disease_detected

\* C4: for a non-empty detection, disease_detected is the negation of
\* (the lower-cased disease name of the selected class id = 'healthy'): false
\* for class id 0, true for every other id, those outside the table included.
C4_DiseasedIffNotHealthy ==
    DetectHasBoxes =>
        /\ result.disease_detected = ~(lower(TableName(SelectedBox.cls)) = "healthy")
        /\ result.disease_detected = (SelectedBox.cls # 0)

\* a class id outside the table was selected and reported as diseased
C4_Witness ==
    /\ DetectHasBoxes
    /\ SelectedBox.cls = 9
    /\ result.disease_detected

\* C5: a selected class id outside 0..8 (negative ids included) gives a
\* normal record without an 'error' key: disease_type 'unknown_disease',
\* disease_detected true, the box's confidence, and the generic treatment.
C5_UnknownClassNoFailure ==
    (DetectHasBoxes /\ SelectedBox.cls \notin 0 .. 8) =>
        /\ "error" \notin DOMAIN result
        /\ result.disease_type = "unknown_disease"
        /\ result.disease_detected = TRUE
        /\ result.confidence = SelectedBox.conf
        /\ result.treatment_recommendation =
               "Consult agricultural expert for treatment advice."

\* a negative class id was selected
C5_Witness ==
    /\ DetectHasBoxes
    /\ SelectedBox.cls = -1
    /\ result.disease_type = "unknown_disease"
    /\ "error" \notin DOMAIN result

\* the catalog's severity of each class id of 1..8, written out
TableSeverity(id) ==
    CASE id \in {2, 7, 8} -> "High"
      [] id \in {1, 4, 5, 6} -> "Medium"
      [] id = 3 -> "Low"

\* C6: for a selected class id in 1..8 the record has the table's name of that
\* id, the severity and the treatment of that name's catalog entry, and the
\* selected box's confidence; one box of class 2 and confidence 0.81 yields
\* late_blight, High and the late_blight treatment.
C6_KnownDiseaseRecord ==
    /\ (DetectHasBoxes /\ SelectedBox.cls \in 1 .. 8) =>
          /\ result.disease_detected = TRUE
          /\ result.disease_type = TableName(SelectedBox.cls)
          /\ result.severity_level = TableSeverity(SelectedBox.cls)
          /\ result.severity_level =
                 disease_info[TableName(SelectedBox.cls)].severity
          /\ result.treatment_recommendation =
                 disease_info[TableName(SelectedBox.cls)].treatment
          /\ result.confidence = SelectedBox.conf
    /\ (DetectHasBoxes /\ input.results[1].boxes = <<[conf |-> 81, cls |-> 2]>>) =>
          result = [disease_detected |-> TRUE,
                    confidence |-> 81,
                    disease_type |-> "late_blight",
                    severity_level |-> "High",
                    treatment_recommendation |->
                        "Apply fungicide immediately. Remove and destroy affected plants."]

\* the example of the claim: one box, class 2, confidence 0.81
C6_Witness ==
    /\ DetectHasBoxes
    /\ input.results[1].boxes = <<[conf |-> 81, cls |-> 2]>>
    /\ result.disease_type = "late_blight"

\* C7: when the disease name of the selected box is no key of the catalog,
\* the record has severity_level 'Unknown' and the generic fallback
\* treatment, and the lookup does not fail (the record is no error record).
C7_MissingNameFallback ==
    (DetectHasBoxes /\ TableName(SelectedBox.cls) \notin DOMAIN disease_info) =>
        /\ result.severity_level = "Unknown"
        /\ result.treatment_recommendation =
               "Consult agricultural expert for treatment advice."
        /\ "error" \notin DOMAIN result

\* a name that is no catalog key was looked up
C7_Witness ==
    /\ DetectHasBoxes
    /\ SelectedBox.cls = 10
    /\ "unknown_disease" \notin DOMAIN disease_info
    /\ result.severity_level = "Unknown"

\* C8: the severity_level of every record detect returns is one of the four
\* tiers None, Low, Medium, High (None as Python's None or as the catalog's
\* string 'None').
C8_SeverityInFourTiers ==
    op = "detect" =>
        result.severity_level \in {None, "None", "Low", "Medium", "High"}

\* C10: when preprocessing fails, detect returns the sentinel error record
\* without invoking the model: not diseased, confidence 0.0, no disease type,
\* no severity, 'error' holding the message and the treatment being
\* 'Detection failed: ' followed by that message.
C10_PreprocessFailure ==
    (op = "detect" /\ ~input.readable) =>
        /\ model_calls = 0
        /\ result = [disease_detected |-> FALSE,
                     confidence |-> 0,
                     disease_type |-> None,
                     severity_level |-> None,
                     treatment_recommendation |->
                         "Detection failed: Failed to preprocess image",
                     error |-> "Failed to preprocess image"]
        /\ result.treatment_recommendation = "Detection failed: " \o result.error

\* an unreadable file was answered with the error record
C10_Witness ==
    /\ op = "detect"
    /\ ~input.readable
    /\ "error" \in DOMAIN result
    /\ model_calls = 0

\* the five keys of a record of detect
RecordKeys ==
    {"disease_detected", "confidence", "disease_type", "severity_level",
     "treatment_recommendation"}

\* C11: detect never raises: an exception thrown by the model call or while
\* its results are processed is caught inside detect and answered with the
\* error record of a preprocessing failure's shape (not diseased, confidence
\* 0.0, no disease type, 'error' = the exception text); no partial result.
C11_ExceptionsCaught ==
    /\ op = "detect" => "raised" \notin DOMAIN result
    /\ (op = "detect" /\ input.readable /\ input.raises) =>
          result = [disease_detected |-> FALSE,
                    confidence |-> 0,
                    disease_type |-> None,
                    severity_level |-> None,
                    treatment_recommendation |->
                        "Detection failed: " \o input.text,
                    error |-> input.text]

\* an exception raised while the results were processed was answered with
\* the error record
C11_Witness ==
    /\ op = "detect"
    /\ input.readable /\ input.raises /\ input.at = "postprocess"
    /\ result.error = "CUDA out of memory"
    /\ result.treatment_recommendation = "Detection failed: CUDA out of memory"

\* C12: a detect call invokes the model at most once: once when
\* preprocessing succeeded, never when it failed, and not a second time after
\* a failed model call.
C12_ModelCalledAtMostOnce ==
    op = "detect" =>
        /\ model_calls <= 1
        /\ input.readable => model_calls = 1
        /\ ~input.readable => model_calls = 0
        /\ (input.raises /\ input.at = "inference") => model_calls = 1

\* the model call raised and was not repeated
C12_Witness ==
    /\ op = "detect"
    /\ input.readable /\ input.raises /\ input.at = "inference"
    /\ model_calls = 1
    /\ "error" \in DOMAIN result

\* every confidence the detector delivered to the call lies in [0,1]
DeliveredConfidencesInRange ==
    DetectHasBoxes =>
        \A i \in 1 .. Len(input.results[1].boxes) :
            input.results[1].boxes[i].conf \in 0 .. 100

\* C14: provided the delivered confidences lie in [0,1], the confidence of
\* every record of detect lies in [0,1]: the selected box's confidence for a
\* detection, 0.95 for no detections, 0.0 for an error record.
C14_ConfidenceInRange ==
    (op = "detect" /\ DeliveredConfidencesInRange) =>
        /\ result.confidence >= 0 /\ result.confidence <= 100
        /\ DetectHasBoxes => result.confidence = SelectedBox.conf
        /\ (DetectReturned /\ ~DetectHasBoxes) => result.confidence = 95
        /\ ~DetectReturned => result.confidence = 0

\* a no-detection record with confidence 0.95
C14_Witness ==
    /\ DetectReturned
    /\ ~DetectHasBoxes
    /\ input.results = <<>>
    /\ result.confidence = 95

\* C19: a selected box of class id 0 gives disease_detected false, no disease
\* type, no severity, that box's own confidence (not 0.95) and the 'Plant
\* appears healthy' treatment; the catalog's 'healthy' treatment and its
\* 'None' severity string are returned for no input.
C19_HealthyTopBox ==
    /\ (DetectHasBoxes /\ SelectedBox.cls = 0) =>
          result = [disease_detected |-> FALSE,
                    confidence |-> SelectedBox.conf,
                    disease_type |-> None,
                    severity_level |-> None,
                    treatment_recommendation |->
                        "Plant appears healthy. Continue regular care."]
    /\ op = "detect" =>
          /\ result.treatment_recommendation #
                 "No treatment needed. Continue regular plant care."
          /\ result.severity_level # "None"

\* a healthy top box of confidence 0.81, ahead of a diseased box of lower
\* confidence
C19_Witness ==
    /\ DetectHasBoxes
    /\ input.results[1].boxes = <<[conf |-> 50, cls |-> 2], [conf |-> 81, cls |-> 0]>>
    /\ result.confidence = 81
    /\ ~result.disease_detected

\* C20: a record of detect has the key 'error' exactly when detection failed
\* (preprocessing returned nothing, or an exception was caught); an error
\* record has confidence 0.0 and the treatment 'Detection failed: ' + the
\* message; a record of a successful inference has no 'error' key and a
\* confidence other than 0.0, so it differs from every error record.
C20_ErrorDistinguishable ==
    op = "detect" =>
        /\ ("error" \in DOMAIN result) <=> (~input.readable \/ input.raises)
        /\ ("error" \in DOMAIN result) =>
              /\ result.confidence = 0
              /\ result.treatment_recommendation =
                     "Detection failed: " \o result.error
        /\ ("error" \notin DOMAIN result) =>
              /\ result.confidence # 0
              /\ DOMAIN result = RecordKeys

\* an exception of the model call gave an error record, not the healthy one
C20_Witness ==
    /\ op = "detect"
    /\ input.readable /\ input.raises
    /\ "error" \in DOMAIN result
    /\ result.confidence = 0
    /\ result.treatment_recommendation # "Plant appears healthy. Continue regular care."

(***************************************************************************)
(* Properties of PlantDiseaseDetector.detect_disease                       *)
(***************************************************************************)
\* the last call was a detect_disease call that returned detections
DetectDiseaseReturned ==
    op = "detect_disease" /\ "error" \notin DOMAIN result

\* the boxes the model delivered to that call
DeliveredBoxes ==
    IF Len(input.results) > 0 THEN input.results[1].boxes ELSE <<>>

\* C9: every detected box, whatever its class, gets severity_percentage =
\* 100 * box_area / image_area with box_area = (x2 - x1) * (y2 - y1), and
\* severity_level Low below 10, Medium from 10 to below 25, High from 25 on;
\* exactly 10% is Medium and exactly 25% is High.
C9_AreaSeverity ==
    DetectDiseaseReturned =>
        /\ Len(result.detections) = Len(DeliveredBoxes)
        /\ \A i \in 1 .. Len(DeliveredBoxes) :
              LET b == DeliveredBoxes[i].xyxy
                  d == result.detections[i]
                  area == (b[3] - b[1]) * (b[4] - b[2])
                  whole == input.shape[1] * input.shape[2]
                  p == d.severity_percentage
              IN  /\ p.num * whole = 100 * area * p.den
                  /\ (100 * area < 10 * whole) => d.severity_level = "Low"
                  /\ (100 * area >= 10 * whole /\ 100 * area < 25 * whole)
                        => d.severity_level = "Medium"
                  /\ (100 * area >= 25 * whole) => d.severity_level = "High"
                  /\ (100 * area = 10 * whole) => d.severity_level = "Medium"
                  /\ (100 * area = 25 * whole) => d.severity_level = "High"

\* a healthy box of exactly 10% and a box of exactly 25% of a 10 x 10 image
C9_Witness ==
    /\ DetectDiseaseReturned
    /\ input.shape = <<10, 10>>
    /\ Len(result.detections) = 2
    /\ input.results[1].boxes[1].xyxy = <<0, 0, 1, 10>>
    /\ result.detections[1].class_name = "healthy"
    /\ result.detections[1].severity_level = "Medium"
    /\ input.results[1].boxes[2].xyxy = <<0, 0, 5, 5>>
    /\ result.detections[2].severity_level = "High"

(***************************************************************************)
(* Properties of YOLODetector.batch_detect and of the detector's state     *)
(***************************************************************************)
\* a record without its 'image_path' key
WithoutImagePath(r) == [k \in DOMAIN r \ {"image_path"} |-> r[k]]

\* C13: after any sequence of detect and batch_detect calls the catalog, the
\* class table and the confidence threshold (0.5) are what they were at
\* construction, and the record of a detect call is a function of the
\* detector output alone (equal outputs give equal records); every catalog
\* key is lowercase and every catalog severity is one of 'None', 'Low',
\* 'Medium', 'High'.
C13_DetectorStateUnchanged ==
    /\ disease_info = CatalogAtConstruction
    /\ confidence_threshold = 50
    /\ \A id \in ClassIds : map_class_to_disease(id) = TableName(id)
    /\ op = "detect" => result = detect(CatalogAtConstruction, input)
    /\ op = "batch_detect" =>
          \A i \in 1 .. Len(input) :
              WithoutImagePath(result[i]) = detect(CatalogAtConstruction, input[i])
    /\ DOMAIN disease_info =
          {"healthy", "early_blight", "late_blight", "leaf_mold",
           "septoria_leaf_spot", "bacterial_spot", "target_spot",
           "mosaic_virus", "yellow_leaf_curl_virus"}
    /\ \A k \in DOMAIN disease_info :
          /\ lower(k) = k
          /\ disease_info[k].severity \in {"None", "Low", "Medium", "High"}

\* a detect call that looked up a name the catalog does not hold has returned
C13_Witness ==
    /\ DetectHasBoxes
    /\ SelectedBox.cls = 9
    /\ result.disease_type = "unknown_disease"
    /\ "unknown_disease" \notin DOMAIN disease_info
    /\ confidence_threshold = 50

\* C16: batch_detect handles the paths one at a time in input order: the
\* list it returns is as long as its input, its i-th element is the detect
\* result of the i-th path with 'image_path' set to that path, and a failed
\* image gives an error record at its position without stopping or
\* reordering the later images.
C16_BatchInOrder ==
    op = "batch_detect" =>
        /\ Len(result) = Len(input)
        /\ \A i \in 1 .. Len(input) :
              /\ result[i].image_path = input[i].image_path
              /\ WithoutImagePath(result[i]) = detect(disease_info, input[i])
              /\ ("error" \in DOMAIN result[i]) <=>
                     (~input[i].readable \/ input[i].raises)
              /\ (input[i].readable /\ ~input[i].raises
                  /\ Len(input[i].results[1].boxes) > 0) =>
                     result[i].disease_detected =
                         (input[i].results[1].boxes[1].cls # 0)

\* the first image failed and the second was still processed, in order
C16_Witness ==
    /\ op = "batch_detect"
    /\ Len(input) = 2
    /\ input[1].image_path = "b.jpg" /\ ~input[1].readable
    /\ input[2].image_path = "a.jpg" /\ input[2].readable /\ ~input[2].raises
    /\ Len(result) = 2
    /\ "error" \in DOMAIN result[1] /\ result[1].image_path = "b.jpg"
    /\ result[2].image_path = "a.jpg" /\ result[2].disease_type = "late_blight"

\* the catalog policy written out: the severity of a selected class id
SeverityOfClass(id) ==
    IF id = 0 THEN None
    ELSE IF id \in 1 .. 8 THEN TableSeverity(id)
    ELSE "Unknown"

\* the area policy written out: the tier of the ratio area / whole
TierOfRatio(area, whole) ==
    IF 100 * area < 10 * whole THEN "Low"
    ELSE IF 100 * area < 25 * whole THEN "Medium"
    ELSE "High"

\* C17: the two severity policies stay separate: in detect the severity is a
\* function of the selected box's class id alone (whatever the confidences,
\* the other boxes and the box coordinates), and in detect_disease the
\* severity of a box is a function of the ratio of box area to image area
\* alone (whatever its class id).
C17_PoliciesSeparate ==
    /\ DetectHasBoxes => result.severity_level = SeverityOfClass(SelectedBox.cls)
    /\ op = "batch_detect" =>
          \A i \in 1 .. Len(input) :
              (input[i].readable /\ ~input[i].raises
               /\ Len(input[i].results[1].boxes) > 0) =>
                  result[i].severity_level =
                      SeverityOfClass(input[i].results[1].boxes[1].cls)
    /\ DetectDiseaseReturned =>
          \A i \in 1 .. Len(DeliveredBoxes) :
              LET b == DeliveredBoxes[i].xyxy
              IN  /\ result.detections[i].severity_level =
                         TierOfRatio((b[3] - b[1]) * (b[4] - b[2]),
                                     input.shape[1] * input.shape[2])
                  /\ \A j \in 1 .. Len(DeliveredBoxes) :
                         LET c == DeliveredBoxes[j].xyxy
                         IN  ((b[3] - b[1]) * (b[4] - b[2])
                                  = (c[3] - c[1]) * (c[4] - c[2]))
                             => result.detections[i].severity_level
                                    = result.detections[j].severity_level

\* two boxes of the same area, one healthy and one of a class outside the
\* table, got the same tier from detect_disease
C17_Witness ==
    /\ DetectDiseaseReturned
    /\ Len(result.detections) = 2
    /\ input.results[1].boxes[1].cls = 0
    /\ input.results[1].boxes[2].cls = 10
    /\ input.results[1].boxes[1].xyxy = <<0, 0, 5, 5>>
    /\ input.results[1].boxes[2].xyxy = <<0, 0, 5, 5>>
    /\ result.detections[1].severity_level = "High"
    /\ result.detections[2].severity_level = "High"

(***************************************************************************)
(* Properties of the /api/detect route                                     *)
(***************************************************************************)
\* the last request got as far as calling yolo_detector.detect
RouteCalledDetect == op = "api_detect" /\ input.save = "ok"

\* C15: every mapping detect returns, on every path, the error paths
\* included, holds the five keys disease_detected, confidence, disease_type,
\* severity_level and treatment_recommendation, so the route's reads of
\* detection_result['disease_detected'] and ['confidence'] never fail on a
\* missing key.
C15_RecordKeysPresent ==
    RouteCalledDetect =>
        /\ RecordKeys \subseteq DOMAIN result.detection_result
        /\ result.status = 500 =>
               result.body.error \notin {"'disease_detected'", "'confidence'"}
        /\ (input.upload = "url" /\ input.db_save = "ok") =>
               /\ result.status = 200
               /\ result.body.disease_detected =
                      result.detection_result.disease_detected
               /\ result.body.confidence = result.detection_result.confidence

\* the route read the keys of an error record of detect and answered 200
C15_Witness ==
    /\ RouteCalledDetect
    /\ ~input.din.readable
    /\ "error" \in DOMAIN result.detection_result
    /\ result.status = 200
    /\ result.body.confidence = 0

\* C18: once the uploaded image is written to the upload folder, the file
\* no longer exists when the request finishes, on every path: removed after
\* a successful upload, removed by the exception handler when the save, the
\* upload or the database save fails; a request rejected before the file is
\* written (unknown user, no image, empty filename) creates no file.
C18_TempFileRemoved ==
    /\ uploads = {}
    /\ op = "api_detect" =>
          /\ input.user = "missing" => result.status = 404
          /\ (input.user = "found" /\ input.json = "without_image"
              /\ input.files \in {"none", "empty_name"}) => result.status = 400
          /\ input.save \in {"raises_no_file", "raises_left_file"} =>
                result.status = 500
          /\ (input.save = "ok" /\ input.upload # "url") => result.status = 500
          /\ (input.save = "ok" /\ input.db_save = "raises") => result.status = 500
          /\ result.status \in {400, 404} => input.save = NA

\* the file was written, the upload failed, and the handler removed the file
C18_Witness ==
    /\ op = "api_detect"
    /\ input.save = "ok"
    /\ input.upload = "raises"
    /\ result.status = 500
    /\ UploadPath \notin uploads

(***************************************************************************)
(* Properties of the class tables                                          *)
(***************************************************************************)
\* the class ids the training labels use
LabelClassIds == {label_class_id(n) : n \in DOMAIN dataset_class_mapping}

\* C21: all class tables of the repository give a class id the same name:
\* class_names of PlantDiseaseDetector, the default names of get_class_names
\* and the names of the training labels agree on every id they define, and
\* the name detect reports for a selected box whose class id its table
\* defines is the name the other tables give that id.
C21_TablesAgree ==
    /\ \A id \in LabelClassIds :
          /\ id \in DOMAIN default_class_names
          /\ default_class_names[id] = label_class_name(id)
          /\ index_ok(class_names, id)
          /\ list_item(class_names, id) = label_class_name(id)
    /\ (DetectHasBoxes /\ SelectedBox.cls \in DOMAIN class_mapping
        /\ result.disease_detected) =>
          /\ SelectedBox.cls \in DOMAIN default_class_names
          /\ result.disease_type = default_class_names[SelectedBox.cls]
          /\ result.disease_type = list_item(class_names, SelectedBox.cls)
          /\ result.disease_type = label_class_name(SelectedBox.cls)

(***************************************************************************)
(* Properties of the results of PlantDiseaseDetector.detect_disease        *)
(***************************************************************************)
\* the number of detections of a result flagged is_diseased
DiseasedCount(r) ==
    Cardinality({i \in 1 .. Len(r.detections) : r.detections[i].is_diseased})

\* C22: in every result of detect_disease total_detections is the length of
\* detections, diseased_detections is the number of detections flagged
\* is_diseased and at most total_detections; overall_health is 'Error'
\* exactly when the result has the key 'error', and then detections is empty
\* and both counts are 0; otherwise it is 'Healthy' exactly when
\* diseased_detections is 0 (no detections included), else 'Diseased'.
C22_ResultCounts ==
    op = "detect_disease" =>
        /\ result.total_detections = Len(result.detections)
        /\ result.diseased_detections = DiseasedCount(result)
        /\ result.diseased_detections <= result.total_detections
        /\ result.overall_health = "Error" <=> "error" \in DOMAIN result
        /\ "error" \in DOMAIN result =>
              /\ result.detections = <<>>
              /\ result.total_detections = 0
              /\ result.diseased_detections = 0
        /\ "error" \notin DOMAIN result =>
              /\ result.overall_health \in {"Healthy", "Diseased"}
              /\ result.overall_health = "Healthy" <=>
                     result.diseased_detections = 0

\* a result with a healthy and a diseased detection
C22_Witness ==
    /\ DetectDiseaseReturned
    /\ result.total_detections = 2
    /\ result.diseased_detections = 1
    /\ result.overall_health = "Diseased"
    /\ ~result.detections[1].is_diseased

\* C23: in detect_disease every box whose class id lies outside the index
\* range 0..9 of class_names, negative ids included, gets a detection named
\* 'class_<id>' and flagged is_diseased; a detection is flagged not diseased
\* only when its class id is 0.
C23_OutOfRangeNamed ==
    (op = "detect_disease" /\ input.readable /\ ~input.raises) =>
        \A i \in 1 .. Len(DeliveredBoxes) :
            LET id == DeliveredBoxes[i].cls
                delivered == i \in DOMAIN result.detections
            IN  /\ id \notin 0 .. (Len(class_names) - 1) =>
                      /\ delivered
                      /\ result.detections[i].class_name = "class_" \o ToString(id)
                      /\ result.detections[i].is_diseased
                /\ (delivered /\ ~result.detections[i].is_diseased) => id = 0

(***************************************************************************)
(* Properties of the documents /api/detect stores                          *)
(***************************************************************************)
\* this step handles one request to /api/detect
ApiDetectStep == op = "idle" /\ op' = "api_detect"

\* the document this step appended, if it appended one
StoredByStep == detection_docs'[Len(detection_docs')]

\* C25: a request to /api/detect is answered 200 exactly when it stored one
\* Detection document, and otherwise stores none; the stored document's
\* disease_detected, confidence_score, disease_type, severity_level and
\* treatment_recommendation are those of the record detect returned for the
\* request; when the cloud upload raises or returns no URL, nothing is stored
\* and the answer is 500.
C25_StoredIffOk ==
    [][ApiDetectStep =>
          /\ result'.status = 200 <=>
                 Len(detection_docs') = Len(detection_docs) + 1
          /\ result'.status # 200 => detection_docs' = detection_docs
          /\ result'.status = 200 =>
                /\ SubSeq(detection_docs', 1, Len(detection_docs)) = detection_docs
                /\ StoredByStep.disease_detected =
                       result'.detection_result.disease_detected
                /\ StoredByStep.confidence_score =
                       result'.detection_result.confidence
                /\ StoredByStep.disease_type =
                       result'.detection_result.disease_type
                /\ StoredByStep.severity_level =
                       result'.detection_result.severity_level
                /\ StoredByStep.treatment_recommendation =
                       result'.detection_result.treatment_recommendation
          /\ input'.upload \in {"raises", "no_url"} =>
                /\ result'.status = 500
                /\ detection_docs' = detection_docs
      ]_vars

\* a request whose image shows a disease was answered 200 and its record is
\* the last stored document
C25_Witness ==
    /\ op = "api_detect"
    /\ result.status = 200
    /\ Len(detection_docs) > 0
    /\ detection_docs[Len(detection_docs)].disease_detected
    /\ detection_docs[Len(detection_docs)].disease_type =
           result.detection_result.disease_type
    /\ detection_docs[Len(detection_docs)].confidence_score = 81

(***************************************************************************)
(* Properties of /api/register and PUT /api/profile                        *)
(***************************************************************************)
\* no two of the rows have the same email
EmailsDistinct(rows) ==
    \A i, j \in 1 .. Len(rows) : i # j => rows[i].email # rows[j].email

\* some row other than the one with this id has the email
EmailOfAnother(rows, id, email) ==
    \E i \in 1 .. Len(rows) : i # id /\ rows[i].email = email

\* in this step handler p takes a register request and looks its email up
RegisterArrives(p) ==
    /\ handlers[p].pc = "idle"
    /\ handlers'[p].pc # "idle"
    /\ handlers'[p].kind = "register"

\* in this step handler p, with the token's user loaded, looks the new
\* email up
ProfileEmailChecked(p) ==
    /\ handlers[p].pc = "profile_loaded"
    /\ handlers'[p].pc # "profile_loaded"
    /\ "email" \in DOMAIN handlers[p].data

\* in this step handler p answers 400
Rejects(p) ==
    /\ handlers[p].pc # "done"
    /\ handlers'[p].pc = "done"
    /\ handlers'[p].status = 400

====
